---- MODULE Spec2Model ----
(***************************************************************************)
(* Model of process_wsj0.py: the manifest scan                             *)
(* (extract_subsets_and_subfolders), the discovery of candidate files      *)
(* (find_wv1_files), the path classification (extract_set_dir), the        *)
(* per-file pipeline (process_file) and the thread-pool orchestrator       *)
(* (main).                                                                 *)
(*                                                                         *)
(* A string is a sequence of one-character strings, so that str.split,     *)
(* str.startswith, Path.stem and the glob patterns are computed character  *)
(* by character.  A path (pathlib.Path) is the sequence of its parts.      *)
(***************************************************************************)
EXTENDS Integers, Sequences, FiniteSets, TLC

(* ------------------------------------------------------------------ *)
(* Bounds of the model                                                  *)
(* ------------------------------------------------------------------ *)
MaxLines == 2
MaxFiles == 2
MaxThreads == 2

(* ------------------------------------------------------------------ *)
(* Strings                                                              *)
(* ------------------------------------------------------------------ *)
IsSpace(c) == c \in {" ", "\t", "\n"}

RECURSIVE SplitWsFrom(_, _, _)
SplitWsFrom(s, i, cur) ==
    IF i > Len(s)
    THEN IF cur = <<>> THEN <<>> ELSE <<cur>>
    ELSE IF IsSpace(s[i])
         THEN (IF cur = <<>> THEN <<>> ELSE <<cur>>) \o SplitWsFrom(s, i + 1, <<>>)
         ELSE SplitWsFrom(s, i + 1, Append(cur, s[i]))

\* line.split(): split on runs of whitespace, no empty field
SplitWs(s) == SplitWsFrom(s, 1, <<>>)

RECURSIVE SplitSlashFrom(_, _, _)
SplitSlashFrom(s, i, cur) ==
    IF i > Len(s)
    THEN <<cur>>
    ELSE IF s[i] = "/"
         THEN <<cur>> \o SplitSlashFrom(s, i + 1, <<>>)
         ELSE SplitSlashFrom(s, i + 1, Append(cur, s[i]))

\* file_path.split('/'): every '/' separates, empty components are kept
SplitSlash(s) == SplitSlashFrom(s, 1, <<>>)

\* s.startswith(prefix)
StartsWith(s, prefix) ==
    /\ Len(s) >= Len(prefix)
    /\ SubSeq(s, 1, Len(prefix)) = prefix

\* fnmatch of the pattern "*<suffix>" against a file name
EndsWith(s, suffix) ==
    /\ Len(s) >= Len(suffix)
    /\ SubSeq(s, Len(s) - Len(suffix) + 1, Len(s)) = suffix

\* name.rfind('.'), 1-based, 0 when there is no dot
RECURSIVE RFindDot(_, _)
RFindDot(name, i) ==
    IF i = 0 THEN 0
    ELSE IF name[i] = "." THEN i ELSE RFindDot(name, i - 1)

\* Path.stem: the name without its last suffix; a leading or a trailing
\* dot starts no suffix
Stem(name) ==
    LET i == RFindDot(name, Len(name))
    IN  IF 1 < i /\ i < Len(name) THEN SubSeq(name, 1, i - 1) ELSE name

PrefixSi == <<"s", "i", "_">>
PrefixSd == <<"s", "d", "_">>
ExtWv1 == <<".", "w", "v", "1">>
ExtSph == <<".", "s", "p", "h">>
ExtWav == <<".", "w", "a", "v">>
DefaultSubfolder == <<"d", "e", "f", "a", "u", "l", "t">>

(* ------------------------------------------------------------------ *)
(* extract_subsets_and_subfolders: one iteration of the loop over the   *)
(* lines of the manifest                                                *)
(* ------------------------------------------------------------------ *)
\* a looser test of the prefix: any component that starts with "s"
HasSubsetPrefixLoose(part) == StartsWith(part, <<"s">>)

HasSubsetPrefix(part) == StartsWith(part, PrefixSi) \/ StartsWith(part, PrefixSd)

\* the subfolder read positionally, not gated on the prefix of the subset
ScanLineUngated(line, acc) ==
    LET parts == SplitWs(line)
    IN  IF Len(parts) # 4
        THEN acc
        ELSE LET path_parts == SplitSlash(parts[4])
                 n == Len(path_parts)
             IN  IF n < 4
                 THEN acc
                 ELSE [subsets |-> IF HasSubsetPrefix(path_parts[n - 2])
                                   THEN acc.subsets \cup {path_parts[n - 2]}
                                   ELSE acc.subsets,
                       subfolders |-> IF n >= 5
                                      THEN acc.subfolders \cup {path_parts[n - 1]}
                                      ELSE acc.subfolders]

\* the subfolder taken only from paths of 6 components or more
ScanLineDeep(line, acc) ==
    LET parts == SplitWs(line)
    IN  IF Len(parts) # 4
        THEN acc
        ELSE LET path_parts == SplitSlash(parts[4])
                 n == Len(path_parts)
             IN  IF n < 4
                 THEN acc
                 ELSE IF HasSubsetPrefix(path_parts[n - 2])
                      THEN [subsets |-> acc.subsets \cup {path_parts[n - 2]},
                            subfolders |-> IF n >= 6
                                           THEN acc.subfolders \cup {path_parts[n - 1]}
                                           ELSE acc.subfolders]
                      ELSE acc

ScanLine(line, acc) ==
    LET parts == SplitWs(line)
    IN  IF Len(parts) # 4
        THEN acc
        ELSE LET path_parts == SplitSlash(parts[4])
                 n == Len(path_parts)
             IN  IF n < 4
                 THEN acc
                 ELSE IF HasSubsetPrefix(path_parts[n - 2])
                      THEN [subsets |-> acc.subsets \cup {path_parts[n - 2]},
                            subfolders |-> IF n >= 5
                                           THEN acc.subfolders \cup {path_parts[n - 1]}
                                           ELSE acc.subfolders]
                      ELSE acc

(* ------------------------------------------------------------------ *)
(* extract_set_dir                                                      *)
(* ------------------------------------------------------------------ *)
\* a loop without the break: the last matching part wins
RECURSIVE LastMatch(_, _, _)
LastMatch(parts, tokens, i) ==
    IF i > Len(parts) THEN 0
    ELSE LET later == LastMatch(parts, tokens, i + 1)
         IN  IF later # 0 THEN later
             ELSE IF parts[i] \in tokens THEN i ELSE 0

\* for part in parts: if part in tokens: ... break; 0 stands for the
\* else branch of the loop (no break)
RECURSIVE FirstMatch(_, _, _)
FirstMatch(parts, tokens, i) ==
    IF i > Len(parts) THEN 0
    ELSE IF parts[i] \in tokens THEN i ELSE FirstMatch(parts, tokens, i + 1)

ExtractSetDir(wv1_path, subs, subfs) ==
    LET i == FirstMatch(wv1_path, subs, 1)
        j == FirstMatch(wv1_path, subfs, 1)
    IN  IF i = 0
        THEN [ok |-> FALSE, subset |-> <<>>, subfolder |-> <<>>]
        ELSE [ok |-> TRUE, subset |-> wv1_path[i],
              subfolder |-> IF j = 0 THEN DefaultSubfolder ELSE wv1_path[j]]

(* ------------------------------------------------------------------ *)
(* Inputs: the words of the corpus, the lines of file.tbl and the files *)
(* below the input root                                                 *)
(* ------------------------------------------------------------------ *)
RECURSIVE Join(_, _)
Join(strs, sep) ==
    IF Len(strs) = 0 THEN <<>>
    ELSE IF Len(strs) = 1 THEN strs[1]
    ELSE strs[1] \o sep \o Join(Tail(strs), sep)

MkPath(comps) == Join(comps, <<"/">>)
MkLine(fields) == Join(fields, <<" ">>) \o <<"\n">>

d == <<"d">>
w == <<"w">>
si_a == <<"s", "i", "_", "a">>
sd_b == <<"s", "d", "_", "b">>
si == <<"s", "i">>
n1 == <<"n", "1">>
n2 == <<"n", "2">>
f_wv1 == <<"f", ".", "w", "v", "1">>
f_sph == <<"f", ".", "s", "p", "h">>
f_wv2 == <<"f", ".", "w", "v", "2">>
g_wv1 == <<"g", ".", "w", "v", "1">>
hash == <<"h">>
size == <<"1">>
stamp == <<"t">>

P1 == <<d, w, si_a, n1, f_wv1>>
P2 == <<w, si_a, n1, f_wv1>>
P3 == <<d, w, si, n2, g_wv1>>
P4 == <<d, w, sd_b, si_a, g_wv1>>
P5 == <<si_a, w, sd_b, n2, g_wv1>>
P6 == <<d, w, si_a, n1, f_sph>>
P7 == <<d, w, si_a, n1, f_wv2>>

TblLine(p) == MkLine(<<hash, size, stamp, MkPath(p)>>)

\* the lines a manifest is made of: well-formed lines of 5 and of 4 path
\* components, with and without the prefix, and malformed ones
LinePool ==
    << TblLine(P1),
       TblLine(P2),
       TblLine(P3),
       TblLine(P4),
       TblLine(P5),
       MkLine(<<hash, size, stamp, MkPath(<<si_a, n1, f_wv1>>)>>),
       MkLine(<<hash, size, MkPath(P1)>>),
       MkLine(<<hash, size, stamp, MkPath(P1), hash>>),
       <<" ", "\n">> >>

\* the files below the input root, in the order the traversal yields them
FilePool == <<P1, P2, P3, P4, P5, P6, P7>>

RootPool == {<<d>>, <<si_a>>}

output_root == <<"o">>

SeqsUpTo(S, n) == UNION {[1..k -> S] : k \in 0..n}

Range(s) == {s[i] : i \in DOMAIN s}

Manifests == SeqsUpTo(Range(LinePool), MaxLines)

\* the manifests of the runs with several files
RunManifests ==
    { <<TblLine(P1)>>, <<TblLine(P3), TblLine(P2)>>, <<TblLine(P3)>> }

RunFiles == {P1, P2, P3, P6, P7}

(* ------------------------------------------------------------------ *)
(* State                                                                *)
(* ------------------------------------------------------------------ *)
VARIABLES
    input_root,      \* args.input_root, as path parts
    tree,            \* the files below the input root, relative to it
    manifest_exists, \* whether <input_root>/file.tbl can be opened
    manifest,        \* the lines of file.tbl
    num_threads,     \* args.num_threads
    main_pc,         \* position of main
    wv1_files,       \* main: wv1_files
    line_no,         \* extract_subsets_and_subfolders: next line of the loop
    subsets,         \* subsets (the callee's, then main's)
    subfolders,      \* subfolders (the callee's, then main's)
    pc,              \* per submitted task: position of process_file
    local,           \* per task: subset, subfolder, out_path, caught error
    trace,           \* per task: the steps process_file has attempted
    result,          \* per task: the value of the future
    out_dirs,        \* directories below the output root
    out_files,       \* output files, each a path with its content
    tmp_files,       \* existing temporary files, each an owner task with its content
    printed,         \* tasks whose outcome main has printed, in order
    exit_status      \* "none" while running, then "ok" or "error"

vars == << input_root, tree, manifest_exists, manifest, num_threads, main_pc,
           wv1_files, line_no, subsets, subfolders, pc, local, trace, result,
           out_dirs, out_files, tmp_files, printed, exit_status >>

inputs == << input_root, tree, manifest_exists, manifest, num_threads >>
disk == << out_dirs, out_files, tmp_files >>
tasks == << pc, local, trace, result >>

NoLocal == [subset |-> <<>>, subfolder |-> <<>>, out_path |-> <<>>, err |-> ""]
NoResult == [kind |-> "", file |-> <<>>, saved_to |-> <<>>, error |-> ""]

InitRest ==
    /\ main_pc = "discover"
    /\ wv1_files = <<>>
    /\ line_no = 1
    /\ subsets = {}
    /\ subfolders = {}
    /\ pc = <<>>
    /\ local = <<>>
    /\ trace = <<>>
    /\ result = <<>>
    /\ out_dirs = {}
    /\ out_files = {}
    /\ tmp_files = {}
    /\ printed = <<>>
    /\ exit_status = "none"

\* runs of the whole tool over several files
Init ==
    /\ input_root = <<d>>
    /\ tree \in {t \in SUBSET RunFiles : Cardinality(t) <= MaxFiles}
    /\ manifest_exists \in BOOLEAN
    /\ manifest \in IF manifest_exists THEN RunManifests ELSE {<<>>}
    /\ num_threads \in 1..MaxThreads
    /\ InitRest

\* runs over every manifest, with one file and one worker
ScanInit ==
    /\ input_root \in RootPool
    /\ tree \in {{FilePool[k]} : k \in 1..5}
    /\ manifest_exists = TRUE
    /\ manifest \in Manifests
    /\ num_threads = 1
    /\ InitRest

TokenPool == {w, si_a, sd_b, n1, n2}

\* classification of one file against every pair of token sets
ClassifyInit ==
    /\ input_root = <<d>>
    /\ tree \in {{FilePool[k]} : k \in 1..5}
    /\ manifest_exists = TRUE
    /\ manifest = <<>>
    /\ num_threads = 1
    /\ main_pc = "submit"
    /\ wv1_files = <<input_root \o (CHOOSE p \in tree : TRUE)>>
    /\ line_no = 1
    /\ subsets \in SUBSET TokenPool
    /\ subfolders \in SUBSET TokenPool
    /\ pc = <<>>
    /\ local = <<>>
    /\ trace = <<>>
    /\ result = <<>>
    /\ out_dirs = {}
    /\ out_files = {}
    /\ tmp_files = {}
    /\ printed = <<>>
    /\ exit_status = "none"

(* ------------------------------------------------------------------ *)
(* find_wv1_files                                                       *)
(* ------------------------------------------------------------------ *)
Name(path) == path[Len(path)]

RGlob(root, files, ext) ==
    LET hit(p) == p \in files /\ EndsWith(Name(p), ext)
        found == SelectSeq(FilePool, hit)
    IN  [k \in 1..Len(found) |-> root \o found[k]]

FindWv1Files(root, files) == RGlob(root, files, ExtWv1) \o RGlob(root, files, ExtSph)

(* ------------------------------------------------------------------ *)
(* main                                                                 *)
(* ------------------------------------------------------------------ *)
Discover ==
    /\ main_pc = "discover"
    /\ wv1_files' = FindWv1Files(input_root, tree)
    /\ main_pc' = "open"
    /\ UNCHANGED << inputs, line_no, subsets, subfolders, tasks, disk, printed,
                    exit_status >>

\* open(file_path, 'r'): a missing manifest raises out of main
OpenManifest ==
    /\ main_pc = "open"
    /\ IF manifest_exists
       THEN /\ main_pc' = "scan"
            /\ exit_status' = exit_status
       ELSE /\ main_pc' = "exit"
            /\ exit_status' = "error"
    /\ UNCHANGED << inputs, wv1_files, line_no, subsets, subfolders, tasks, disk,
                    printed >>

MainScanLine ==
    /\ main_pc = "scan"
    /\ line_no <= Len(manifest)
    /\ LET acc == ScanLine(manifest[line_no],
                           [subsets |-> subsets, subfolders |-> subfolders])
       IN  /\ subsets' = acc.subsets
           /\ subfolders' = acc.subfolders
    /\ line_no' = line_no + 1
    /\ UNCHANGED << inputs, main_pc, wv1_files, tasks, disk, printed, exit_status >>

ScanReturn ==
    /\ main_pc = "scan"
    /\ line_no > Len(manifest)
    /\ main_pc' = "submit"
    /\ UNCHANGED << inputs, wv1_files, line_no, subsets, subfolders, tasks, disk,
                    printed, exit_status >>

\* submission that starts while the manifest is still being scanned
MaySubmitEarly(at) == at \in {"scan", "submit"}

\* whether main may call executor.submit
MaySubmit(at) == at = "submit"

Submit ==
    /\ MaySubmit(main_pc)
    /\ Len(pc) < Len(wv1_files)
    /\ pc' = Append(pc, "queued")
    /\ local' = Append(local, NoLocal)
    /\ trace' = Append(trace, <<>>)
    /\ result' = Append(result, NoResult)
    /\ UNCHANGED << inputs, main_pc, wv1_files, line_no, subsets, subfolders, disk,
                    printed, exit_status >>

SubmitDone ==
    /\ main_pc = "submit"
    /\ Len(pc) = Len(wv1_files)
    /\ main_pc' = "collect"
    /\ UNCHANGED << inputs, wv1_files, line_no, subsets, subfolders, tasks, disk,
                    printed, exit_status >>

\* a collection loop that only ever sees the futures that succeeded
YieldsSuccessful(i, done) ==
    /\ pc[i] = "done"
    /\ i \notin Range(done)
    /\ result[i].kind = "converted successfully"

\* as_completed yields a finished future that it has not yielded yet
Yields(i, done) == pc[i] = "done" /\ i \notin Range(done)

PrintResult(i) ==
    /\ main_pc = "collect"
    /\ Yields(i, printed)
    /\ printed' = Append(printed, i)
    /\ UNCHANGED << inputs, main_pc, wv1_files, line_no, subsets, subfolders, tasks,
                    disk, exit_status >>

Exit ==
    /\ main_pc = "collect"
    /\ Len(printed) = Len(pc)
    /\ main_pc' = "exit"
    /\ exit_status' = "ok"
    /\ UNCHANGED << inputs, wv1_files, line_no, subsets, subfolders, tasks, disk,
                    printed >>

(* ------------------------------------------------------------------ *)
(* The file system, as the pipeline uses it                             *)
(* ------------------------------------------------------------------ *)
\* os.makedirs(dir, exist_ok=True): dir and every missing ancestor
MakeDirs(dirs, dir) == dirs \cup {SubSeq(dir, 1, k) : k \in 1..Len(dir)}

Parent(path) == SubSeq(path, 1, Len(path) - 1)

\* writing a file replaces what the path held
WriteFile(files, path, content) ==
    {x \in files : x.path # path} \cup {[path |-> path, content |-> content]}

\* NamedTemporaryFile(): a new empty file under a name no other task has
CreateTmp(tmps, i) == tmps \cup {[owner |-> i, content |-> <<>>]}

\* open(wav_path, "wb") and the decoder's standard output
WriteTmp(tmps, i, content) ==
    {x \in tmps : x.owner # i} \cup {[owner |-> i, content |-> content]}

\* a temporary file created with delete=False
CloseTmpKeep(tmps, i) == tmps

\* leaving the with block closes the temporary file, which deletes it
CloseTmp(tmps, i) == {x \in tmps : x.owner # i}

TmpExists(i) == \E x \in tmp_files : x.owner = i
TmpContent(i) == (CHOOSE x \in tmp_files : x.owner = i).content

(* ------------------------------------------------------------------ *)
(* process_file                                                         *)
(* ------------------------------------------------------------------ *)
Running == {i \in 1..Len(pc) : pc[i] \notin {"queued", "done"}}

\* a worker thread takes the oldest queued task when one is idle
WorkerTakes(i) ==
    /\ pc[i] = "queued"
    /\ \A j \in 1..(i - 1) : pc[j] # "queued"
    /\ Cardinality(Running) < num_threads

OutPath(wv1_file, subset, subfolder) ==
    output_root \o <<subset, subfolder, Stem(Name(wv1_file)) \o ExtWav>>

\* the value process_file returns
Message(wv1_file, loc) ==
    IF loc.err = ""
    THEN [kind |-> "converted successfully", file |-> wv1_file,
          saved_to |-> loc.out_path, error |-> ""]
    ELSE [kind |-> "conversion failed", file |-> wv1_file,
          saved_to |-> <<>>, error |-> loc.err]

\* an entry of the trace: a step process_file attempted and whether it
\* succeeded
Did(step, ok) == [step |-> step, ok |-> ok]

\* the except clause: the error ends the task with a failure message
Fails(i, step, error) ==
    /\ pc' = [pc EXCEPT ![i] = "done"]
    /\ local' = [local EXCEPT ![i].err = error]
    /\ trace' = [trace EXCEPT ![i] = Append(@, Did(step, FALSE))]
    /\ result' = [result EXCEPT ![i] = Message(wv1_files[i], local'[i])]

Proceeds(i, step, ok, next) ==
    /\ pc' = [pc EXCEPT ![i] = next]
    /\ trace' = [trace EXCEPT ![i] = Append(@, Did(step, ok))]
    /\ UNCHANGED result

Classify(i) ==
    /\ WorkerTakes(i)
    /\ LET c == ExtractSetDir(wv1_files[i], subsets, subfolders)
       IN  IF c.ok
           THEN /\ local' = [local EXCEPT ![i] =
                       [subset |-> c.subset, subfolder |-> c.subfolder,
                        out_path |-> OutPath(wv1_files[i], c.subset, c.subfolder),
                        err |-> ""]]
                /\ Proceeds(i, "classify", TRUE, "makedirs")
           ELSE Fails(i, "classify", "Could not find subset")
    /\ UNCHANGED << inputs, main_pc, wv1_files, line_no, subsets, subfolders, disk,
                    printed, exit_status >>

Makedirs(i) ==
    /\ pc[i] = "makedirs"
    /\ \/ /\ out_dirs' = MakeDirs(out_dirs, Parent(local[i].out_path))
          /\ Proceeds(i, "makedirs", TRUE, "tmpfile")
          /\ UNCHANGED local
       \/ /\ Fails(i, "makedirs", "makedirs: OSError")
          /\ UNCHANGED out_dirs
    /\ UNCHANGED << inputs, main_pc, wv1_files, line_no, subsets, subfolders,
                    out_files, tmp_files, printed, exit_status >>

TmpFile(i) ==
    /\ pc[i] = "tmpfile"
    /\ \/ /\ tmp_files' = CreateTmp(tmp_files, i)
          /\ Proceeds(i, "tmpfile", TRUE, "sph2pipe")
          /\ UNCHANGED local
       \/ /\ Fails(i, "tmpfile", "tempfile: OSError")
          /\ UNCHANGED tmp_files
    /\ UNCHANGED << inputs, main_pc, wv1_files, line_no, subsets, subfolders,
                    out_dirs, out_files, printed, exit_status >>

\* subprocess.run without check=True: a non-zero exit of the decoder is
\* not raised
ConvertToWavUnchecked(i) ==
    /\ pc[i] = "sph2pipe"
    /\ \/ /\ tmp_files' = WriteTmp(tmp_files, i, wv1_files[i])
          /\ Proceeds(i, "sph2pipe", TRUE, "sox")
       \/ /\ tmp_files' = WriteTmp(tmp_files, i, <<>>)
          /\ Proceeds(i, "sph2pipe", FALSE, "sox")
    /\ UNCHANGED << inputs, main_pc, wv1_files, line_no, subsets, subfolders,
                    local, out_dirs, out_files, printed, exit_status >>

\* convert_to_wav: the decoder writes the waveform of the source file into
\* the temporary file, or exits non-zero
ConvertToWav(i) ==
    /\ pc[i] = "sph2pipe"
    /\ \/ /\ tmp_files' = WriteTmp(tmp_files, i, wv1_files[i])
          /\ Proceeds(i, "sph2pipe", TRUE, "sox")
          /\ UNCHANGED local
       \/ /\ tmp_files' = WriteTmp(tmp_files, i, <<>>)
          /\ local' = [local EXCEPT ![i].err = "sph2pipe: CalledProcessError"]
          /\ Proceeds(i, "sph2pipe", FALSE, "close")
    /\ UNCHANGED << inputs, main_pc, wv1_files, line_no, subsets, subfolders,
                    out_dirs, out_files, printed, exit_status >>

\* resample_audio: the resampler reads the temporary file and writes the
\* output file, or exits non-zero
ResampleAudio(i) ==
    /\ pc[i] = "sox"
    /\ \/ /\ TmpExists(i)
          /\ out_files' = WriteFile(out_files, local[i].out_path, TmpContent(i))
          /\ Proceeds(i, "sox", TRUE, "close")
          /\ UNCHANGED local
       \/ /\ local' = [local EXCEPT ![i].err = "sox: CalledProcessError"]
          /\ Proceeds(i, "sox", FALSE, "close")
          /\ UNCHANGED out_files
    /\ UNCHANGED << inputs, main_pc, wv1_files, line_no, subsets, subfolders,
                    out_dirs, tmp_files, printed, exit_status >>

\* the end of the with block, then the return of line 82 or of line 85
CloseAndReturn(i) ==
    /\ pc[i] = "close"
    /\ tmp_files' = CloseTmp(tmp_files, i)
    /\ pc' = [pc EXCEPT ![i] = "done"]
    /\ result' = [result EXCEPT ![i] = Message(wv1_files[i], local[i])]
    /\ UNCHANGED << inputs, main_pc, wv1_files, line_no, subsets, subfolders,
                    local, trace, out_dirs, out_files, printed, exit_status >>

(* ------------------------------------------------------------------ *)
(* Specifications                                                       *)
(* ------------------------------------------------------------------ *)
Worker ==
    \E i \in 1..Len(pc) :
        \/ Classify(i)
        \/ Makedirs(i)
        \/ TmpFile(i)
        \/ ConvertToWav(i)
        \/ ResampleAudio(i)
        \/ CloseAndReturn(i)

Next ==
    \/ Discover
    \/ OpenManifest
    \/ MainScanLine
    \/ ScanReturn
    \/ Submit
    \/ SubmitDone
    \/ \E i \in 1..Len(pc) : PrintResult(i)
    \/ Exit
    \/ Worker

Spec == Init /\ [][Next]_vars

\* the thread pool runs every runnable worker, and main, eventually
FairSpec == Spec /\ WF_vars(Next)

ScanSpec == ScanInit /\ [][Next]_vars

ClassifyNext ==
    \/ Submit
    \/ SubmitDone
    \/ \E i \in 1..Len(pc) : PrintResult(i)
    \/ Exit
    \/ Worker

ClassifySpec == ClassifyInit /\ [][ClassifyNext]_vars

(* ------------------------------------------------------------------ *)
(* Vocabulary of the properties                                         *)
(* ------------------------------------------------------------------ *)
\* the component starts with "si_" or with "sd_"
StartsSiSd(part) ==
    /\ Len(part) >= 3
    /\ part[1] = "s"
    /\ part[2] \in {"i", "d"}
    /\ part[3] = "_"

\* the path of a line of exactly 4 fields, split at the slashes; no
\* component at all for a line of another shape
LinePath(line) ==
    LET fields == SplitWs(line)
    IN  IF Len(fields) = 4 THEN SplitSlash(fields[4]) ELSE <<>>

\* the tokens the claim gives a line
TokensOf(line) ==
    LET p == LinePath(line)
        n == Len(p)
    IN  [subset |-> IF n >= 4 /\ StartsSiSd(p[n - 2]) THEN {p[n - 2]} ELSE {},
         subfolder |-> IF n >= 5 /\ StartsSiSd(p[n - 2]) THEN {p[n - 1]} ELSE {}]

AddsSubset(line) == TokensOf(line).subset # {}
AddsSubfolder(line) == TokensOf(line).subfolder # {}

SubsetsOf(lines) == UNION {TokensOf(lines[k]).subset : k \in DOMAIN lines}
SubfoldersOf(lines) == UNION {TokensOf(lines[k]).subfolder : k \in DOMAIN lines}

\* the lines the scan has gone through
Scanned ==
    IF main_pc \in {"discover", "open"} THEN <<>>
    ELSE IF main_pc = "scan" THEN SubSeq(manifest, 1, line_no - 1)
    ELSE manifest

Min(S) == CHOOSE m \in S : \A k \in S : m <= k

Matches(path, tokens) == {k \in DOMAIN path : path[k] \in tokens}

StepOrder == <<"classify", "makedirs", "tmpfile", "sph2pipe", "sox">>
AllOk == [k \in 1..5 |-> Did(StepOrder[k], TRUE)]

Succeeded(i) == pc[i] = "done" /\ result[i].kind = "converted successfully"
Failed(i) == pc[i] = "done" /\ result[i].kind = "conversion failed"

NoPrefixPath(path) == \A k \in DOMAIN path : ~StartsSiSd(path[k])

IsPrefix(p, q) == Len(p) <= Len(q) /\ SubSeq(q, 1, Len(p)) = p
IsSuffix(p, q) == Len(p) <= Len(q) /\ SubSeq(q, Len(q) - Len(p) + 1, Len(q)) = p

(* ------------------------------------------------------------------ *)
(* C1: whatever part of the manifest the scan has gone through, the     *)
(* subset tokens are exactly the components at index len-3 of the lines *)
(* of exactly 4 fields whose path has at least 4 components and the     *)
(* prefix "si_" or "sd_" there, and the subfolder tokens exactly the    *)
(* components at index len-2 of those of these lines whose path has at  *)
(* least 5 components; any other line changes neither set.              *)
(* ------------------------------------------------------------------ *)
C1_ScanIsComprehension ==
    /\ subsets = SubsetsOf(Scanned)
    /\ subfolders = SubfoldersOf(Scanned)

C1_Witness ==
    /\ main_pc = "submit"
    /\ \E k \in DOMAIN manifest : AddsSubfolder(manifest[k])
    /\ \E k \in DOMAIN manifest : ~AddsSubset(manifest[k])

(* ------------------------------------------------------------------ *)
(* C2: a classified file has as subset its leftmost part that is a      *)
(* subset token and as subfolder its leftmost part that is a subfolder  *)
(* token, or "default" when there is none; a file none of whose parts   *)
(* is a subset token fails with the classification error at its first   *)
(* step.                                                                *)
(* ------------------------------------------------------------------ *)
C2_LeftmostMatch ==
    \A i \in DOMAIN pc :
        pc[i] # "queued" =>
            LET path == wv1_files[i]
                ms == Matches(path, subsets)
                mf == Matches(path, subfolders)
            IN  IF ms = {}
                THEN /\ pc[i] = "done"
                     /\ trace[i] = <<Did("classify", FALSE)>>
                     /\ result[i].error = "Could not find subset"
                ELSE /\ trace[i][1] = Did("classify", TRUE)
                     /\ local[i].subset = path[Min(ms)]
                     /\ local[i].subfolder =
                            IF mf = {} THEN DefaultSubfolder ELSE path[Min(mf)]

C2_Witness ==
    \E i \in DOMAIN pc :
        /\ pc[i] = "makedirs"
        /\ Cardinality(Matches(wv1_files[i], subsets)) >= 2
        /\ Cardinality(Matches(wv1_files[i], subfolders)) >= 2

(* ------------------------------------------------------------------ *)
(* C3: a finished task holds a message on its own file: the success     *)
(* message with the output path exactly when classification, directory  *)
(* creation, temp-file creation, decoder and resampler all succeeded in *)
(* that order, and otherwise the failure message with the error of the  *)
(* step that failed; a step changes the outcome of its own task only,   *)
(* and only when that task finishes.                                    *)
(* ------------------------------------------------------------------ *)
C3_Outcome(i) ==
    pc[i] = "done" =>
        /\ result[i].file = wv1_files[i]
        /\ \A k \in DOMAIN trace[i] : trace[i][k].step = StepOrder[k]
        /\ IF trace[i] = AllOk
           THEN /\ result[i].kind = "converted successfully"
                /\ result[i].saved_to =
                       OutPath(wv1_files[i], local[i].subset, local[i].subfolder)
           ELSE /\ result[i].kind = "conversion failed"
                /\ result[i].error # ""
                /\ trace[i] # <<>>
                /\ trace[i][Len(trace[i])].ok = FALSE
                /\ \A k \in 1..(Len(trace[i]) - 1) : trace[i][k].ok

C3_Isolated(i) ==
    result'[i] # result[i] =>
        /\ pc[i] # "done"
        /\ pc'[i] = "done"
        /\ \A j \in DOMAIN pc : j # i => pc'[j] = pc[j] /\ result'[j] = result[j]

C3_ContainedOutcome ==
    [][ /\ \A i \in DOMAIN pc' : C3_Outcome(i)'
        /\ \A i \in DOMAIN pc : C3_Isolated(i) ]_vars

C3_Witness ==
    /\ main_pc = "exit"
    /\ \E i \in DOMAIN pc : Succeeded(i)
    /\ \E i \in DOMAIN pc : Failed(i) /\ Did("sox", FALSE) \in Range(trace[i])

(* ------------------------------------------------------------------ *)
(* C4: a candidate file none of whose parts starts with "si_" or "sd_"  *)
(* ends with the failure message at classification; it attempts no      *)
(* directory creation, no temporary file and no external process, every *)
(* output directory and output file is the work of another task, and a  *)
(* sibling all of whose steps succeed still ends with the success       *)
(* message.                                                             *)
(* ------------------------------------------------------------------ *)
C4_NoPrefixFails ==
    /\ \A i \in DOMAIN pc :
          NoPrefixPath(wv1_files[i]) =>
              /\ pc[i] \in {"queued", "done"}
              /\ pc[i] = "queued" => trace[i] = <<>>
              /\ pc[i] = "done" =>
                    /\ result[i].kind = "conversion failed"
                    /\ trace[i] = <<Did("classify", FALSE)>>
    /\ \A dir \in out_dirs :
          \E j \in DOMAIN pc :
              /\ ~NoPrefixPath(wv1_files[j])
              /\ Did("makedirs", TRUE) \in Range(trace[j])
              /\ IsPrefix(dir, Parent(local[j].out_path))
    /\ \A x \in out_files :
          \E j \in DOMAIN pc :
              /\ ~NoPrefixPath(wv1_files[j])
              /\ Did("sox", TRUE) \in Range(trace[j])
              /\ x.path = local[j].out_path
    /\ \A j \in DOMAIN pc :
          pc[j] = "done" /\ trace[j] = AllOk =>
              result[j].kind = "converted successfully"

C4_Witness ==
    /\ main_pc = "exit"
    /\ \E i \in DOMAIN pc : NoPrefixPath(wv1_files[i]) /\ Failed(i)
    /\ \E j \in DOMAIN pc : Succeeded(j)
    /\ out_files # {}

(* ------------------------------------------------------------------ *)
(* C5: the run ends with the output files, and their content, that the  *)
(* tasks leave when they run one after the other in submission order    *)
(* (num_threads = 1) with the same outcome of each external tool: the   *)
(* final state does not depend on which task writes its output first.   *)
(* ------------------------------------------------------------------ *)
RECURSIVE SequentialFiles(_)
SequentialFiles(n) ==
    IF n = 0 THEN {}
    ELSE IF Did("sox", TRUE) \in Range(trace[n])
         THEN WriteFile(SequentialFiles(n - 1), local[n].out_path, wv1_files[n])
         ELSE SequentialFiles(n - 1)

C5_OrderIndependent ==
    (main_pc = "exit" /\ exit_status = "ok") =>
        out_files = SequentialFiles(Len(pc))

(* ------------------------------------------------------------------ *)
(* C6: at the end of a run there are as many output files as candidate  *)
(* files with a success message, and no two successfully converted      *)
(* candidate files share an output path.                                *)
(* ------------------------------------------------------------------ *)
C6_OneFilePerSuccess ==
    (main_pc = "exit" /\ exit_status = "ok") =>
        /\ Cardinality(out_files) = Cardinality({i \in DOMAIN pc : Succeeded(i)})
        /\ \A i, j \in DOMAIN pc :
              Succeeded(i) /\ Succeeded(j) /\ i # j =>
                  result[i].saved_to # result[j].saved_to

(* ------------------------------------------------------------------ *)
(* C7: when the manifest exists, the run eventually exits with success  *)
(* status, having submitted one task per discovered candidate file and  *)
(* printed the outcome of each finished task exactly once, also when    *)
(* every outcome is a failure message.                                  *)
(* ------------------------------------------------------------------ *)
Terminated ==
    /\ main_pc = "exit"
    /\ exit_status = "ok"
    /\ Len(pc) = Len(FindWv1Files(input_root, tree))
    /\ \A i \in DOMAIN pc : pc[i] = "done"
    /\ Len(printed) = Len(pc)
    /\ \A i \in DOMAIN pc : Cardinality({k \in DOMAIN printed : printed[k] = i}) = 1

C8_TmpDeleted ==
    /\ \A i \in DOMAIN pc :
          /\ pc[i] = "done" => ~TmpExists(i)
          /\ pc[i] = "sox" => TmpExists(i)
    /\ main_pc = "exit" => tmp_files = {}

C8_Witness ==
    /\ main_pc = "exit"
    /\ \E i \in DOMAIN pc :
          /\ Failed(i)
          /\ Did("tmpfile", TRUE) \in Range(trace[i])
          /\ Did("sph2pipe", FALSE) \in Range(trace[i])
    /\ \E i \in DOMAIN pc : Succeeded(i)

(* ------------------------------------------------------------------ *)
(* C9: from the first task submission on, both token sets equal the     *)
(* result of the manifest scan and no step changes them.                *)
(* ------------------------------------------------------------------ *)
C9_TokenSetsFrozen ==
    [][ /\ Len(pc') > 0 =>
              /\ subsets' = SubsetsOf(manifest)
              /\ subfolders' = SubfoldersOf(manifest)
        /\ Len(pc) > 0 => UNCHANGED << subsets, subfolders >> ]_vars

C9_Witness ==
    /\ subsets # {}
    /\ subfolders # {}
    /\ \E i \in DOMAIN pc : pc[i] = "sox"
    /\ \E i \in DOMAIN pc : pc[i] = "done"

(* ------------------------------------------------------------------ *)
(* C10: a candidate file whose path ends with the components p of a     *)
(* manifest line that added a subset and a subfolder token is           *)
(* classified as (p[len-3], p[len-2]).                                  *)
(* ------------------------------------------------------------------ *)
\* the line assigns a subset and a subfolder to the file
Assigns(line, path) ==
    LET p == LinePath(line)
    IN  /\ Len(p) >= 5
        /\ StartsSiSd(p[Len(p) - 2])
        /\ IsSuffix(p, path)

ClassifiedAsLine(i, line) ==
    LET p == LinePath(line)
    IN  /\ local[i].subset = p[Len(p) - 2]
        /\ local[i].subfolder = p[Len(p) - 1]

C10_AgreesWithManifest ==
    \A i \in DOMAIN pc :
        pc[i] # "queued" =>
            \A k \in DOMAIN manifest :
                Assigns(manifest[k], wv1_files[i]) =>
                    ClassifiedAsLine(i, manifest[k])

\* no part of the file's path left of p[len-3] is another subset token,
\* and none left of p[len-2] is another subfolder token
LeftClean(line, path) ==
    LET p == LinePath(line)
        off == Len(path) - Len(p)
    IN  /\ \A m \in 1..(off + Len(p) - 3) :
              path[m] \in subsets => path[m] = p[Len(p) - 2]
        /\ \A m \in 1..(off + Len(p) - 2) :
              path[m] \in subfolders => path[m] = p[Len(p) - 1]

\* C10, amended: ... provided no part of the file's path left of
\* p[len-3] is a subset token other than p[len-3] and no part left of
\* p[len-2] is a subfolder token other than p[len-2]
C10_AgreesWhenLeftClean ==
    \A i \in DOMAIN pc :
        pc[i] # "queued" =>
            \A k \in DOMAIN manifest :
                Assigns(manifest[k], wv1_files[i])
                    /\ LeftClean(manifest[k], wv1_files[i]) =>
                        ClassifiedAsLine(i, manifest[k])

C10_Witness ==
    \E i \in DOMAIN pc :
        /\ pc[i] = "makedirs"
        /\ Cardinality(subsets) >= 2
        /\ Cardinality(subfolders) >= 2
        /\ Len(input_root) > 0 /\ input_root[1] \in subsets
        /\ \E k \in DOMAIN manifest :
              /\ Assigns(manifest[k], wv1_files[i])
              /\ LeftClean(manifest[k], wv1_files[i])

====
